---- MODULE Spec2Model ----
(***************************************************************************)
(* Package simple (jimmyfrasche/simple): the Reader wrapper that never     *)
(* returns an error together with data, the Read helper that right-sizes   *)
(* the caller's buffer, and the basic reader of the examples.              *)
(*                                                                         *)
(* The program is single threaded: every call is one atomic action.        *)
(***************************************************************************)
EXTENDS Integers, Sequences, FiniteSets, TLC

\* Bounds of the model.
MaxLen == 3     \* longest content of a source
MaxCap == 2     \* largest capacity of a caller's buffer
MaxOps == 4     \* calls made after the source is created

\* The examples' values: len("Hello, World!"), make([]byte, 10), Seek(-3, 1).
HelloLen == 13
BufSize == 10
SeekBack == 3

\* The calls counted in a run of an example; further calls are not counted.
MaxIter == 16

\* Error values. Nil is Go's nil error.
Nil == "nil"
EOF == "io.EOF"
ErrUnexpectedEOF == "io.ErrUnexpectedEOF"
ErrSrc == "ErrSrc"

\* The byte a fresh buffer holds (make([]byte, n) is zero filled); sources
\* produce the bytes 1, 2, 3, ... so that a zero in a result is a stale byte.
Stale == 0

Min(a, b) == IF a <= b THEN a ELSE b

(***************************************************************************)
(* Go slices: a nil flag, a length, a capacity and the backing array (as   *)
(* far as the capacity reaches).                                           *)
(***************************************************************************)
NilSlice == [nil |-> TRUE, len |-> 0, cap |-> 0, arr |-> <<>>]

Make(l, c) == [nil |-> FALSE, len |-> l, cap |-> c, arr |-> [i \in 1..c |-> Stale]]

Slices ==
    {NilSlice} \cup
    {Make(lc[1], lc[2]) : lc \in {x \in (0..MaxCap) \X (0..MaxCap) : x[1] <= x[2]}}

\* The buffers with len(p) = cap(p), as make([]byte, l) gives them.
FullSlices == {Make(l, l) : l \in 0..MaxCap}

\* p[:k]
SliceTo(p, k) == [p EXCEPT !.len = k]

\* The bytes a slice shows: p[0:len(p)].
Bytes(p) == SubSeq(p.arr, 1, p.len)

\* copy(p, b) restricted to the first k bytes, k <= len(p), k <= len(b).
CopyN(p, b, k) == [p EXCEPT !.arr = SubSeq(b, 1, k) \o SubSeq(p.arr, k + 1, p.cap)]

(***************************************************************************)
(* Sources. kind "nil" is the nil io.Reader interface value; "basic" is a  *)
(* *basic (ptr = FALSE: a nil *basic inside a non-nil interface); "any" is *)
(* an arbitrary io.Reader, which may return data and an error together,    *)
(* short reads, and any error at any time; as it may return no bytes at    *)
(* will, the one with the longest content behaves as every shorter one.    *)
(***************************************************************************)
Content(L) == [i \in 1..L |-> i]

NilSource == [kind |-> "nil", ptr |-> FALSE, data |-> <<>>]

NewBasic(s) == [kind |-> "basic", ptr |-> TRUE, data |-> s]

NilBasic == [kind |-> "basic", ptr |-> FALSE, data |-> <<>>]

AnySource(s) == [kind |-> "any", ptr |-> TRUE, data |-> s]

Sources == {NilSource, NilBasic}
             \cup {NewBasic(Content(L)) : L \in 0..MaxLen}
             \cup {AnySource(Content(MaxLen))}

\* The outcome of one Read of a source: the count, the error, the source and
\* the buffer afterwards.
Outcome(n, e, s, p) == [n |-> n, err |-> e, src |-> s, p |-> p]

Drop(s, k) == [s EXCEPT !.data = SubSeq(s.data, k + 1, Len(s.data))]

\* basic.Read with the two first checks the other way round.
BasicRead_emptyFirst(b, p) ==
    IF ~b.ptr THEN Outcome(0, ErrUnexpectedEOF, b, p)
    ELSE IF p.len = 0 THEN Outcome(0, Nil, b, p)
    ELSE IF Len(b.data) = 0 THEN Outcome(0, EOF, b, p)
    ELSE LET n == Min(p.len, Len(b.data))
         IN  IF p.len <= Len(b.data)
             THEN Outcome(n, Nil, Drop(b, p.len), CopyN(p, b.data, n))
             ELSE Outcome(n, EOF, [b EXCEPT !.data = <<>>], CopyN(p, b.data, n))

\* basic.Read that takes an empty buffer for the end of the input.
BasicRead_emptyIsEOF(b, p) ==
    IF ~b.ptr THEN Outcome(0, ErrUnexpectedEOF, b, p)
    ELSE IF Len(b.data) = 0 \/ p.len = 0 THEN Outcome(0, EOF, b, p)
    ELSE LET n == Min(p.len, Len(b.data))
         IN  IF p.len <= Len(b.data)
             THEN Outcome(n, Nil, Drop(b, p.len), CopyN(p, b.data, n))
             ELSE Outcome(n, EOF, [b EXCEPT !.data = <<>>], CopyN(p, b.data, n))

\* basic.Read with len(p) < len(*b) in place of len(p) <= len(*b).
BasicRead_strictLess(b, p) ==
    IF ~b.ptr THEN Outcome(0, ErrUnexpectedEOF, b, p)
    ELSE IF Len(b.data) = 0 THEN Outcome(0, EOF, b, p)
    ELSE IF p.len = 0 THEN Outcome(0, Nil, b, p)
    ELSE LET n == Min(p.len, Len(b.data))
         IN  IF p.len < Len(b.data)
             THEN Outcome(n, Nil, Drop(b, p.len), CopyN(p, b.data, n))
             ELSE Outcome(n, EOF, [b EXCEPT !.data = <<>>], CopyN(p, b.data, n))

\* func (b *basic) Read(p []byte) (n int, err error)
BasicRead(b, p) ==
    IF ~b.ptr THEN Outcome(0, ErrUnexpectedEOF, b, p)
    ELSE IF Len(b.data) = 0 THEN Outcome(0, EOF, b, p)
    ELSE IF p.len = 0 THEN Outcome(0, Nil, b, p)
    ELSE LET n == Min(p.len, Len(b.data))
         IN  IF p.len <= Len(b.data)
             THEN Outcome(n, Nil, Drop(b, p.len), CopyN(p, b.data, n))
             ELSE Outcome(n, EOF, [b EXCEPT !.data = <<>>], CopyN(p, b.data, n))

\* Read of an arbitrary io.Reader: 0 <= n <= len(p) bytes of what it has left,
\* with any error or none.
AnyRead(s, p) ==
    { Outcome(k, e, Drop(s, k), CopyN(p, s.data, k)) :
        k \in 0..Min(p.len, Len(s.data)), e \in {Nil, EOF, ErrSrc} }

\* strings.NewReader(s), the seekable reader of ExampleReader_Err: data is what
\* is left to read, s[i:], and past what lies before the position, s[:i].
NewStringsReader(s) == [kind |-> "strings", ptr |-> TRUE, data |-> s, past |-> <<>>]

\* (*strings.Reader).Read: io.EOF at the end, never together with data.
StringsRead(s, p) ==
    IF Len(s.data) = 0 THEN Outcome(0, EOF, s, p)
    ELSE LET n == Min(p.len, Len(s.data))
         IN  Outcome(n, Nil,
                     [s EXCEPT !.data = SubSeq(s.data, n + 1, Len(s.data)),
                               !.past = s.past \o SubSeq(s.data, 1, n)],
                     CopyN(p, s.data, n))

ErrSeek == "strings.Reader.Seek: negative position"

\* sr.Seek(offset, 1), offset <= 0: the error returned and the reader after.
StringsSeek(s, offset) ==
    LET abs == Len(s.past) + offset
        all == s.past \o s.data
    IN  IF abs < 0
        THEN [err |-> ErrSeek, src |-> s]
        ELSE [err |-> Nil,
              src |-> [s EXCEPT !.past = SubSeq(all, 1, abs),
                                !.data = SubSeq(all, abs + 1, Len(all))]]

\* r.r.Read(p): dynamic dispatch on the wrapped io.Reader.
SrcRead(s, p) ==
    IF s.kind = "basic" THEN {BasicRead(s, p)}
    ELSE IF s.kind = "strings" THEN {StringsRead(s, p)}
    ELSE AnyRead(s, p)

(***************************************************************************)
(* The trace of a call of the wrapped source's Read: whether it was made,  *)
(* the length of the buffer it was given and what it returned.             *)
(***************************************************************************)
NoCall == [calls |-> 0, len |-> 0, n |-> 0, err |-> Nil]

Call(p, o) == [calls |-> 1, len |-> p.len, n |-> o.n, err |-> o.err]

\* What a Read of the wrapper gives: the count and error returned, the err
\* field, the source and the buffer afterwards, and the trace of the call of
\* the wrapped source.
Result(n, e, rerr, s, p, c) ==
    [n |-> n, err |-> e, rerr |-> rerr, src |-> s, p |-> p, call |-> c]

\* NewReader without the nil check.
NewReader_noCheck(s) ==
    [panic |-> FALSE, made |-> TRUE, err |-> Nil,
     r |-> IF s.kind = "nil" THEN "nil" ELSE "src"]

\* func NewReader(r io.Reader) *Reader
NewReader(s) ==
    IF s.kind = "nil"
    THEN [panic |-> TRUE, made |-> FALSE, err |-> Nil, r |-> "nil"]
    ELSE [panic |-> FALSE, made |-> TRUE, err |-> Nil, r |-> "src"]

\* Err that clears the stored error and returns nil.
ReaderErr_nil(e) == [ret |-> Nil, err |-> Nil]

\* Err that returns the stored error and leaves it stored.
ReaderErr_sticky(e) == [ret |-> e, err |-> e]

\* func (r *Reader) Err() error: the error returned and the err field after.
ReaderErr(e) == [ret |-> e, err |-> Nil]

\* Read that returns what the source returned, data and error together.
ReaderRead_passThrough(e, s, p) ==
    IF e # Nil
    THEN {Result(0, ReaderErr(e).ret, ReaderErr(e).err, s, p, NoCall)}
    ELSE {Result(o.n, o.err, e, o.src, o.p, Call(p, o)) : o \in SrcRead(s, p)}

\* Read that hides an error that came with data and does not store it.
ReaderRead_swallow(e, s, p) ==
    IF e # Nil
    THEN {Result(0, ReaderErr(e).ret, ReaderErr(e).err, s, p, NoCall)}
    ELSE { IF o.n # 0 /\ o.err # Nil
           THEN Result(o.n, Nil, e, o.src, o.p, Call(p, o))
           ELSE Result(o.n, o.err, e, o.src, o.p, Call(p, o)) :
           o \in SrcRead(s, p) }

\* Read that reports an error that came with data at once, without the data.
ReaderRead_lossy(e, s, p) ==
    IF e # Nil
    THEN {Result(0, ReaderErr(e).ret, ReaderErr(e).err, s, p, NoCall)}
    ELSE { IF o.n # 0 /\ o.err # Nil
           THEN Result(0, o.err, e, o.src, o.p, Call(p, o))
           ELSE Result(o.n, o.err, e, o.src, o.p, Call(p, o)) :
           o \in SrcRead(s, p) }

\* Read that clears a stored error and goes on to read the source (the early
\* return left out).
ReaderRead_noEarlyReturn(e, s, p) ==
    { IF o.n # 0 /\ o.err # Nil
      THEN Result(o.n, Nil, o.err, o.src, o.p, Call(p, o))
      ELSE Result(o.n, o.err, Nil, o.src, o.p, Call(p, o)) :
      o \in SrcRead(s, p) }

\* Read that returns a stored error and leaves it stored (r.err in place of
\* r.Err()).
ReaderRead_peek(e, s, p) ==
    IF e # Nil
    THEN {Result(0, e, e, s, p, NoCall)}
    ELSE { IF o.n # 0 /\ o.err # Nil
           THEN Result(o.n, Nil, o.err, o.src, o.p, Call(p, o))
           ELSE Result(o.n, o.err, e, o.src, o.p, Call(p, o)) :
           o \in SrcRead(s, p) }

\* Read that stores every error of the source, also one that came with no
\* data (err != nil in place of n != 0 && err != nil).
ReaderRead_storeAlways(e, s, p) ==
    IF e # Nil
    THEN {Result(0, ReaderErr(e).ret, ReaderErr(e).err, s, p, NoCall)}
    ELSE { IF o.err # Nil
           THEN Result(o.n, Nil, o.err, o.src, o.p, Call(p, o))
           ELSE Result(o.n, o.err, e, o.src, o.p, Call(p, o)) :
           o \in SrcRead(s, p) }

\* func (r *Reader) Read(p []byte) (n int, err error), with e the err field.
ReaderRead(e, s, p) ==
    IF e # Nil
    THEN {Result(0, ReaderErr(e).ret, ReaderErr(e).err, s, p, NoCall)}
    ELSE { IF o.n # 0 /\ o.err # Nil
           THEN Result(o.n, Nil, o.err, o.src, o.p, Call(p, o))
           ELSE Result(o.n, o.err, e, o.src, o.p, Call(p, o)) :
           o \in SrcRead(s, p) }

\* r.Read(p) for the io.Reader the helper is given: the wrapper or the bare
\* source.
ReadOf(on, e, s, p) ==
    IF on = "reader"
    THEN ReaderRead(e, s, p)
    ELSE {Result(o.n, o.err, e, o.src, o.p, Call(p, o)) : o \in SrcRead(s, p)}

\* The helper without p = p[:n]: the buffer comes back at its full capacity.
Read_noNarrow(on, e, s, p) ==
    LET q == SliceTo(p, p.cap)
    IN  { [slice |-> x.p,
           err   |-> x.err,
           inner |-> [calls |-> 1, len |-> q.len, n |-> x.n, err |-> x.err],
           res   |-> x] : x \in ReadOf(on, e, s, q) }

\* The helper without p = p[:cap(p)]: the buffer is passed at its length.
Read_noGrow(on, e, s, p) ==
    { [slice |-> IF ~p.nil THEN SliceTo(x.p, x.n) ELSE x.p,
       err   |-> x.err,
       inner |-> [calls |-> 1, len |-> p.len, n |-> x.n, err |-> x.err],
       res   |-> x] : x \in ReadOf(on, e, s, p) }

\* func Read(r io.Reader, p []byte) ([]byte, error): the slice and the error
\* returned, the trace of the one r.Read it makes, and that call's result.
Read(on, e, s, p) ==
    LET q == SliceTo(p, p.cap)
    IN  { [slice |-> IF ~q.nil THEN SliceTo(x.p, x.n) ELSE x.p,
           err   |-> x.err,
           inner |-> [calls |-> 1, len |-> q.len, n |-> x.n, err |-> x.err],
           res   |-> x] : x \in ReadOf(on, e, s, q) }

(***************************************************************************)
(* State.                                                                  *)
(*   src        the source (the io.Reader the program reads)               *)
(*   pc         "new": no wrapper yet; "ready": wrapped; "panicked"        *)
(*   made       whether NewReader has returned a *Reader                   *)
(*   err, r     the fields of the Reader                                   *)
(*   last       the last call: its arguments, what it returned, and the    *)
(*              calls it made                                              *)
(*   nops       the number of calls made                                   *)
(* History, kept for the properties:                                       *)
(*   handed     the non-nil errors the source returned to the wrapper      *)
(*   delivered  the non-nil errors the wrapper returned to its caller      *)
(*   produced   the bytes the source produced, over all its Read calls     *)
(*   got        the bytes the wrapper's Read returned                      *)
(*   direct     whether the source was read other than by the wrapper      *)
(*   errRun     the number of Err calls made since the wrapper's last Read *)
(* For the programs of the examples, which keep a buffer between calls:    *)
(*   buf        the program's variable p                                   *)
(***************************************************************************)
VARIABLES src, pc, made, err, r, last, nops,
          handed, delivered, produced, got, direct, errRun, buf

vars == <<src, pc, made, err, r, last, nops,
          handed, delivered, produced, got, direct, errRun, buf>>

Op(op, on, p, n, e, out, call, inner) ==
    [op |-> op, on |-> on, p |-> p, n |-> n, err |-> e, out |-> out,
     call |-> call, inner |-> inner]

AppendErr(log, e) == IF e # Nil THEN Append(log, e) ELSE log

Init ==
    /\ src \in Sources
    /\ pc = "new"
    /\ made = FALSE
    /\ err = Nil
    /\ r = "nil"
    /\ last = Op("init", "-", NilSlice, 0, Nil, NilSlice, NoCall, NoCall)
    /\ nops = 0
    /\ handed = <<>>
    /\ delivered = <<>>
    /\ produced = <<>>
    /\ got = <<>>
    /\ direct = FALSE
    /\ errRun = 0
    /\ buf = NilSlice

\* r := NewReader(src)
DoNewReader ==
    /\ pc = "new"
    /\ nops < MaxOps
    /\ LET w == NewReader(src)
       IN  /\ pc' = IF w.panic THEN "panicked" ELSE "ready"
           /\ made' = w.made
           /\ err' = w.err
           /\ r' = w.r
    /\ last' = Op("NewReader", "-", NilSlice, 0, Nil, NilSlice, NoCall, NoCall)
    /\ nops' = nops + 1
    /\ UNCHANGED <<src, handed, delivered, produced, got, direct, errRun, buf>>

\* n, err := r.Read(p)
DoReaderRead ==
    /\ pc = "ready"
    /\ nops < MaxOps
    /\ \E p \in FullSlices \cup {NilSlice} :
         \E x \in ReaderRead(err, src, p) :
            /\ err' = x.rerr
            /\ src' = x.src
            /\ last' = Op("Reader.Read", "reader", p, x.n, x.err, x.p, x.call, NoCall)
            /\ handed' = IF x.call.calls = 1 THEN AppendErr(handed, x.call.err)
                                             ELSE handed
            /\ delivered' = AppendErr(delivered, x.err)
            /\ produced' = produced \o SubSeq(x.p.arr, 1, x.call.n)
            /\ got' = got \o SubSeq(x.p.arr, 1, x.n)
    /\ nops' = nops + 1
    /\ errRun' = 0
    /\ UNCHANGED <<pc, made, r, direct, buf>>

\* err := r.Err()
DoReaderErr ==
    /\ pc = "ready"
    /\ nops < MaxOps
    /\ LET x == ReaderErr(err)
       IN  /\ err' = x.err
           /\ last' = Op("Reader.Err", "reader", NilSlice, 0, x.ret, NilSlice,
                         NoCall, NoCall)
           /\ delivered' = AppendErr(delivered, x.ret)
    /\ nops' = nops + 1
    /\ errRun' = errRun + 1
    /\ UNCHANGED <<src, pc, made, r, handed, produced, got, direct, buf>>

\* p, err := Read(r, p): the helper on the wrapper
DoReadReader ==
    /\ pc = "ready"
    /\ nops < MaxOps
    /\ \E p \in Slices :
         \E h \in Read("reader", err, src, p) :
            /\ err' = h.res.rerr
            /\ src' = h.res.src
            /\ last' = Op("Read", "reader", p, h.inner.n, h.err, h.slice,
                          h.res.call, h.inner)
            /\ handed' = IF h.res.call.calls = 1
                         THEN AppendErr(handed, h.res.call.err)
                         ELSE handed
            /\ delivered' = AppendErr(delivered, h.err)
            /\ produced' = produced \o SubSeq(h.res.p.arr, 1, h.res.call.n)
            /\ got' = got \o Bytes(h.slice)
    /\ nops' = nops + 1
    /\ errRun' = 0
    /\ UNCHANGED <<pc, made, r, direct, buf>>

\* p, err := Read(src, p): the helper on the bare source
DoReadSrc ==
    /\ pc \in {"new", "ready"}
    /\ src.kind # "nil"
    /\ nops < MaxOps
    /\ \E p \in Slices :
         \E h \in Read("src", err, src, p) :
            /\ src' = h.res.src
            /\ last' = Op("Read", "src", p, h.inner.n, h.err, h.slice,
                          h.res.call, h.inner)
            /\ produced' = produced \o SubSeq(h.res.p.arr, 1, h.res.call.n)
    /\ nops' = nops + 1
    /\ direct' = TRUE
    /\ UNCHANGED <<pc, made, err, r, handed, delivered, got, errRun, buf>>

\* n, err := src.Read(p): the source read directly
DoSrcRead ==
    /\ pc \in {"new", "ready"}
    /\ src.kind # "nil"
    /\ nops < MaxOps
    /\ \E p \in FullSlices \cup {NilSlice} :
         \E o \in SrcRead(src, p) :
            /\ src' = o.src
            /\ last' = Op("src.Read", "src", p, o.n, o.err, o.p, Call(p, o), NoCall)
            /\ produced' = produced \o SubSeq(o.p.arr, 1, o.n)
    /\ nops' = nops + 1
    /\ direct' = TRUE
    /\ UNCHANGED <<pc, made, err, r, handed, delivered, got, errRun, buf>>

Next ==
    \/ DoNewReader
    \/ DoReaderRead
    \/ DoReaderErr
    \/ DoReadReader
    \/ DoReadSrc
    \/ DoSrcRead

Spec == Init /\ [][Next]_vars

(***************************************************************************)
(* The programs of the examples, for every content up to the length of     *)
(* "Hello, World!" and every buffer up to make([]byte, 10):                *)
(*   ExampleReader      the loop  n, err := r.Read(p)  over a basic reader *)
(*   ExampleRead        the loop  p, err := Read(r, p) over a basic reader *)
(*   ExampleReader_Err  Read, Err, Seek(-3, 1), Read over a strings.Reader *)
(* pc is the example's name and the place in it.                           *)
(***************************************************************************)
ExInit ==
    /\ \E L \in 0..HelloLen :
         \/ pc = "ExampleReader.new" /\ src = NewBasic(Content(L))
         \/ pc = "ExampleRead.new" /\ src = NewBasic(Content(L))
         \/ pc = "ExampleReader_Err.new" /\ src = NewStringsReader(Content(L))
    /\ \E k \in 0..BufSize : buf = Make(k, k)
    /\ made = FALSE
    /\ err = Nil
    /\ r = "nil"
    /\ last = Op("init", "-", NilSlice, 0, Nil, NilSlice, NoCall, NoCall)
    /\ nops = 0
    /\ handed = <<>>
    /\ delivered = <<>>
    /\ produced = <<>>
    /\ got = <<>>
    /\ direct = FALSE
    /\ errRun = 0

\* One more call, counted up to MaxIter.
Tick == nops' = IF nops < MaxIter THEN nops + 1 ELSE nops

\* The history after a Read of the wrapper with result x that returned bytes.
LogRead(x, bytes) ==
    /\ handed' = IF x.call.calls = 1 THEN AppendErr(handed, x.call.err) ELSE handed
    /\ delivered' = AppendErr(delivered, x.err)
    /\ produced' = produced \o SubSeq(x.p.arr, 1, x.call.n)
    /\ got' = got \o bytes

\* r := NewReader(&b), r := NewReader(sr)
ExNewReader ==
    /\ pc \in {"ExampleReader.new", "ExampleRead.new", "ExampleReader_Err.new"}
    /\ LET w == NewReader(src)
       IN  /\ pc' = IF w.panic THEN "panicked"
                    ELSE IF pc = "ExampleReader.new" THEN "ExampleReader.loop"
                    ELSE IF pc = "ExampleRead.new" THEN "ExampleRead.loop"
                    ELSE "ExampleReader_Err.read1"
           /\ made' = w.made
           /\ err' = w.err
           /\ r' = w.r
    /\ last' = Op("NewReader", "-", NilSlice, 0, Nil, NilSlice, NoCall, NoCall)
    /\ Tick
    /\ UNCHANGED <<src, handed, delivered, produced, got, direct, errRun, buf>>

\* ExampleReader: for { n, err := r.Read(p); if err != nil { break }; print }
ExReaderLoop ==
    /\ pc = "ExampleReader.loop"
    /\ \E x \in ReaderRead(err, src, buf) :
         /\ err' = x.rerr
         /\ src' = x.src
         /\ buf' = x.p
         /\ last' = Op("Reader.Read", "reader", buf, x.n, x.err, x.p, x.call, NoCall)
         /\ LogRead(x, SubSeq(x.p.arr, 1, x.n))
         /\ pc' = IF x.err # Nil THEN "ExampleReader.done" ELSE pc
    /\ Tick
    /\ errRun' = 0
    /\ UNCHANGED <<made, r, direct>>

\* ExampleRead: for { p, err := Read(r, p); if err != nil { break }; print }
\* The p assigned is the loop's own: the outer p keeps its length.
ExReadLoop ==
    /\ pc = "ExampleRead.loop"
    /\ \E h \in Read("reader", err, src, buf) :
         /\ err' = h.res.rerr
         /\ src' = h.res.src
         /\ buf' = [buf EXCEPT !.arr = h.slice.arr]
         /\ last' = Op("Read", "reader", buf, h.inner.n, h.err, h.slice,
                       h.res.call, h.inner)
         /\ LogRead(h.res, Bytes(h.slice))
         /\ pc' = IF h.err # Nil THEN "ExampleRead.done" ELSE pc
    /\ Tick
    /\ errRun' = 0
    /\ UNCHANGED <<made, r, direct>>

\* ExampleReader_Err: p, err := Read(r, p); if err != nil { return }, twice
ExErrRead ==
    /\ pc \in {"ExampleReader_Err.read1", "ExampleReader_Err.read2"}
    /\ \E h \in Read("reader", err, src, buf) :
         /\ err' = h.res.rerr
         /\ src' = h.res.src
         /\ buf' = h.slice
         /\ last' = Op("Read", "reader", buf, h.inner.n, h.err, h.slice,
                       h.res.call, h.inner)
         /\ LogRead(h.res, Bytes(h.slice))
         /\ pc' = IF h.err # Nil THEN "ExampleReader_Err.failed"
                  ELSE IF pc = "ExampleReader_Err.read1" THEN "ExampleReader_Err.err"
                  ELSE "ExampleReader_Err.done"
    /\ Tick
    /\ errRun' = 0
    /\ UNCHANGED <<made, r, direct>>

\* ExampleReader_Err: if err = r.Err(); err != nil { return }
ExErrErr ==
    /\ pc = "ExampleReader_Err.err"
    /\ LET x == ReaderErr(err)
       IN  /\ err' = x.err
           /\ last' = Op("Reader.Err", "reader", NilSlice, 0, x.ret, NilSlice,
                         NoCall, NoCall)
           /\ delivered' = AppendErr(delivered, x.ret)
           /\ pc' = IF x.ret # Nil THEN "ExampleReader_Err.failed"
                    ELSE "ExampleReader_Err.seek"
    /\ Tick
    /\ errRun' = errRun + 1
    /\ UNCHANGED <<src, made, r, handed, produced, got, direct, buf>>

\* ExampleReader_Err: if _, err = sr.Seek(-3, 1); err != nil { return }
ExErrSeek ==
    /\ pc = "ExampleReader_Err.seek"
    /\ LET k == StringsSeek(src, 0 - SeekBack)
       IN  /\ src' = k.src
           /\ last' = Op("Seek", "src", NilSlice, 0, k.err, NilSlice, NoCall, NoCall)
           /\ pc' = IF k.err # Nil THEN "ExampleReader_Err.failed"
                    ELSE "ExampleReader_Err.read2"
    /\ Tick
    /\ direct' = TRUE
    /\ UNCHANGED <<made, err, r, handed, delivered, produced, got, errRun, buf>>

ExNext ==
    \/ ExNewReader
    \/ ExReaderLoop
    \/ ExReadLoop
    \/ ExErrRead
    \/ ExErrErr
    \/ ExErrSeek

ExSpec == ExInit /\ [][ExNext]_vars

\* A program that can take a step takes it.
ExFairSpec == ExSpec /\ WF_vars(ExNext)

(***************************************************************************)
(* Steps and states the properties speak of.                               *)
(***************************************************************************)
\* The step is a call, and the call is one of ops.
StepOf(ops) == nops' # nops /\ last'.op \in ops

\* The step is a call of a method of the wrapper: Read (also the helper's) or
\* Err.
WrapperStep == nops' # nops /\ last'.on = "reader"

\* The step is a Read of the wrapper, called directly or by the helper.
WrapperReadStep == WrapperStep /\ last'.op \in {"Reader.Read", "Read"}

\* The last call was a Read of the wrapper, called directly or by the helper.
WrapperRead == last.on = "reader" /\ last.op \in {"Reader.Read", "Read"}

\* The err field as a log: the error stored, if any.
Pending(e) == IF e # Nil THEN <<e>> ELSE <<>>

(***************************************************************************)
(* C1: every Read of the wrapper that returns n > 0 returns a nil error,   *)
(* whatever the source returned and whatever calls came before.            *)
(***************************************************************************)
C1_NoDualSignal == WrapperRead /\ last.n > 0 => last.err = Nil

\* A Read of the wrapper whose source returned data and an error together.
C1_Witness ==
    /\ WrapperRead
    /\ last.n > 0
    /\ last.call.calls = 1
    /\ last.call.n > 0
    /\ last.call.err # Nil

(***************************************************************************)
(* C2 as stated: an error the source returned reaches the caller by a Read *)
(* of the wrapper that returns (0, that error): whenever a stored error    *)
(* leaves the wrapper, the call is such a Read.                            *)
(***************************************************************************)
C2_Original ==
    [][err # Nil /\ WrapperStep =>
         /\ last'.op \in {"Reader.Read", "Read"}
         /\ last'.n = 0
         /\ last'.err = err]_vars

(***************************************************************************)
(* C2 amended: an error the source returns to the wrapper is returned by   *)
(* that same Read when the source returned 0 bytes; when it came with data *)
(* it is stored, and the very next call of the wrapper, a Read returning   *)
(* (0, that error) or an Err returning that error, returns it without      *)
(* reading the source.                                                     *)
(***************************************************************************)
C2_ErrorSurfaces ==
    [][/\ (WrapperReadStep /\ last'.call.calls = 1 /\ last'.call.err # Nil =>
              IF last'.call.n = 0
              THEN last'.n = 0 /\ last'.err = last'.call.err
              ELSE last'.err = Nil /\ err' = last'.call.err)
       /\ (err # Nil /\ WrapperStep =>
              /\ last'.n = 0
              /\ last'.err = err
              /\ last'.call.calls = 0
              /\ src' = src)]_vars

\* An Err call has returned an error that a Read had stored.
C2_Witness ==
    /\ last.op = "Reader.Err"
    /\ last.err # Nil
    /\ handed # <<>>
    /\ last.err = handed[Len(handed)]

(***************************************************************************)
(* C3: every non-nil error the source hands to the wrapper is returned to  *)
(* the caller exactly once: the errors returned so far, followed by the    *)
(* one stored, are the errors handed over, in order; an error that came    *)
(* with 0 bytes is returned by that same Read, and a stored one by the     *)
(* very next call of the wrapper (Read or Err).                            *)
(***************************************************************************)
C3_ExactlyOnce ==
    [][/\ handed' = delivered' \o Pending(err')
       /\ (WrapperReadStep /\ last'.call.calls = 1 /\ last'.call.err # Nil
              /\ last'.call.n = 0 =>
              delivered' = Append(delivered, last'.call.err))
       /\ (err # Nil /\ WrapperStep =>
              delivered' = Append(delivered, err) /\ handed' = handed)]_vars

\* Two errors were handed over and both have been returned.
C3_Witness ==
    /\ Len(handed) >= 2
    /\ delivered = handed
    /\ handed[1] # handed[2]

(***************************************************************************)
(* C4: as long as the source is read through the wrapper only, the bytes   *)
(* the wrapper's Read calls returned, in call order, are the bytes the     *)
(* source produced over its own Read calls.                                *)
(***************************************************************************)
C4_NoLoss == ~direct => got = produced

\* Data got through the wrapper from a source that returned errors with it.
C4_Witness ==
    /\ ~direct
    /\ Len(got) >= 2
    /\ Len(handed) >= 2
    /\ \E i \in 1..Len(handed) : handed[i] = ErrSrc

(***************************************************************************)
(* C5: a Read of the wrapper that finds an error stored returns (0, that   *)
(* error), leaves the err field nil, and does not call the source's Read:  *)
(* the source is as it was.                                                *)
(***************************************************************************)
C5_PendingRead ==
    [][err # Nil /\ WrapperReadStep =>
         /\ last'.n = 0
         /\ last'.err = err
         /\ err' = Nil
         /\ last'.call.calls = 0
         /\ src' = src]_vars

\* A Read has returned a stored error while the source still had data.
C5_Witness ==
    /\ WrapperRead
    /\ last.call.calls = 0
    /\ last.n = 0
    /\ last.err # Nil
    /\ err = Nil
    /\ src.data # <<>>

(***************************************************************************)
(* C6: an Err call that follows an Err call, with no Read of the wrapper   *)
(* between the two, returns nil.                                           *)
(***************************************************************************)
C6_DoubleDrain ==
    [][errRun >= 1 /\ StepOf({"Reader.Err"}) => last'.err = Nil]_vars

\* NewReader, a Read that stored an error, Err returning it, Err again.
C6_Witness ==
    /\ last.op = "Reader.Err"
    /\ errRun = 2
    /\ nops = 4
    /\ got # <<>>
    /\ Len(handed) = 1
    /\ delivered = handed
    /\ ~direct

(***************************************************************************)
(* C7: the slice the Read helper returns has exactly the length n that the *)
(* one r.Read it made reported, and holds the first n bytes the source     *)
(* wrote (the next n bytes of the source), for every buffer, nil or empty  *)
(* ones included, and every outcome of the read.                           *)
(***************************************************************************)
C7_RightSized ==
    [][StepOf({"Read"}) =>
         /\ last'.out.len = last'.inner.n
         /\ Bytes(last'.out) = SubSeq(src.data, 1, last'.inner.n)
         /\ last'.out.nil = last'.p.nil]_vars

\* The helper on a source that returned fewer bytes than the capacity of a
\* buffer, with an error, the buffer having been passed at a shorter length.
C7_Witness ==
    /\ last.op = "Read"
    /\ last.on = "src"
    /\ last.inner.n > 0
    /\ last.inner.n < last.p.cap
    /\ last.p.len < last.p.cap
    /\ last.inner.err # Nil

(***************************************************************************)
(* C8: the Read helper makes exactly one r.Read, with a buffer whose       *)
(* length is the capacity of the caller's buffer whatever its length, and  *)
(* returns the error that call returned: the step is one r.Read of the     *)
(* grown buffer from the state before, and nothing else.                   *)
(***************************************************************************)
C8_OneFullRead ==
    [][StepOf({"Read"}) =>
         /\ last'.inner.calls = 1
         /\ last'.inner.len = last'.p.cap
         /\ \E x \in ReadOf(last'.on, err, src, SliceTo(last'.p, last'.p.cap)) :
               /\ last'.err = x.err
               /\ last'.inner.n = x.n
               /\ last'.call = x.call
               /\ src' = x.src
               /\ err' = x.rerr]_vars

\* The helper was given a buffer shorter than its capacity, and the source
\* filled it to the capacity.
C8_Witness ==
    /\ last.op = "Read"
    /\ last.p.len < last.p.cap
    /\ last.call.calls = 1
    /\ last.call.len = last.p.cap
    /\ last.call.n = last.p.cap

(***************************************************************************)
(* C9: NewReader of a nil io.Reader panics and gives no Reader; NewReader  *)
(* of any other io.Reader gives a Reader with a nil err field that wraps   *)
(* it.                                                                     *)
(***************************************************************************)
C9_NewReader ==
    /\ (pc = "panicked" => ~made /\ src.kind = "nil")
    /\ (last.op = "NewReader" =>
          IF src.kind = "nil"
          THEN pc = "panicked" /\ ~made
          ELSE pc = "ready" /\ made /\ err = Nil /\ r = "src")
    /\ (made => r = "src" /\ src.kind # "nil")

\* NewReader was given the nil io.Reader.
C9_Witness == last.op = "NewReader" /\ src.kind = "nil" /\ pc = "panicked"

(***************************************************************************)
(* C10: once the byte sequence of a basic reader is empty, every Read of   *)
(* it returns (0, io.EOF), whatever the buffer, an empty one included, and *)
(* the sequence stays empty.                                               *)
(***************************************************************************)
C10_StickyEOF ==
    [][src.kind = "basic" /\ src.ptr /\ src.data = <<>> /\ nops' # nops =>
         /\ src' = src
         /\ (last'.call.calls = 1 =>
               last'.call.n = 0 /\ last'.call.err = EOF)]_vars

\* A basic reader that has been read to its end was read with an empty
\* buffer.
C10_Witness ==
    /\ src.kind = "basic"
    /\ src.ptr
    /\ src.data = <<>>
    /\ produced # <<>>
    /\ last.call.calls = 1
    /\ last.call.len = 0
    /\ last.call.n = 0
    /\ last.call.err = EOF

(***************************************************************************)
(* C11 as stated: a Read of a basic reader with an empty buffer returns    *)
(* (0, nil) and leaves the byte sequence as it was.                        *)
(***************************************************************************)
C11_Original ==
    [][src.kind = "basic" /\ src.ptr /\ nops' # nops
         /\ last'.call.calls = 1 /\ last'.call.len = 0 =>
         /\ last'.call.n = 0
         /\ last'.call.err = Nil
         /\ src' = src]_vars

(***************************************************************************)
(* C11 amended: a Read of a basic reader whose byte sequence is not empty, *)
(* with an empty buffer, returns (0, nil) and leaves the byte sequence as  *)
(* it was.                                                                 *)
(***************************************************************************)
C11_EmptyBuffer ==
    [][src.kind = "basic" /\ src.ptr /\ src.data # <<>> /\ nops' # nops
         /\ last'.call.calls = 1 /\ last'.call.len = 0 =>
         /\ last'.call.n = 0
         /\ last'.call.err = Nil
         /\ src' = src]_vars

\* A basic reader with bytes left was read with an empty buffer.
C11_Witness ==
    /\ src.kind = "basic"
    /\ src.ptr
    /\ src.data # <<>>
    /\ last.call.calls = 1
    /\ last.call.len = 0
    /\ last.call.n = 0
    /\ last.call.err = Nil

(***************************************************************************)
(* C12: a Read of a basic reader with bytes left, with a buffer of length  *)
(* k > 0: if k is at most the number of bytes left, it copies k bytes,     *)
(* takes them off the front of the sequence and returns (k, nil);          *)
(* otherwise it copies all the bytes left, empties the sequence and        *)
(* returns (the number of bytes left, io.EOF) in that same call.           *)
(***************************************************************************)
C12_BasicRead ==
    [][src.kind = "basic" /\ src.ptr /\ src.data # <<>> /\ nops' # nops
         /\ last'.call.calls = 1 /\ last'.call.len > 0 =>
         LET k   == last'.call.len
             rem == Len(src.data)
         IN  IF k <= rem
             THEN /\ last'.call.n = k
                  /\ last'.call.err = Nil
                  /\ src'.data = SubSeq(src.data, k + 1, rem)
                  /\ SubSeq(last'.out.arr, 1, k) = SubSeq(src.data, 1, k)
             ELSE /\ last'.call.n = rem
                  /\ last'.call.err = EOF
                  /\ src'.data = <<>>
                  /\ SubSeq(last'.out.arr, 1, rem) = src.data]_vars

\* After a Read that filled its buffer, a Read with a buffer longer than what
\* was left returned the rest together with io.EOF.
C12_Witness ==
    /\ src.kind = "basic"
    /\ src.ptr
    /\ last.call.calls = 1
    /\ last.call.n > 0
    /\ last.call.n < last.call.len
    /\ last.call.err = EOF
    /\ Len(produced) > last.call.n

(***************************************************************************)
(* C15: after a Read of the wrapper that called the source and returned    *)
(* n > 0, the err field is nil exactly if the source's error was nil; if   *)
(* it was not, the err field holds that error and the Read returned nil.   *)
(***************************************************************************)
C15_StoredWithData ==
    WrapperRead /\ last.call.calls = 1 /\ last.n > 0 =>
        /\ (err = Nil <=> last.call.err = Nil)
        /\ (last.call.err # Nil => err = last.call.err /\ last.err = Nil)

\* The source returned data with an error that is not io.EOF, now stored.
C15_Witness ==
    /\ WrapperRead
    /\ last.call.calls = 1
    /\ last.n > 0
    /\ last.call.err = ErrSrc
    /\ err = ErrSrc

(***************************************************************************)
(* C16: a Read of the wrapper that finds no error stored, and whose source *)
(* returns (n, err) with n = 0 or err = nil, returns exactly (n, err) and  *)
(* leaves the err field nil.                                               *)
(***************************************************************************)
C16_PassThrough ==
    [][err = Nil /\ WrapperReadStep /\ last'.call.calls = 1
         /\ (last'.call.n = 0 \/ last'.call.err = Nil) =>
         /\ last'.n = last'.call.n
         /\ last'.err = last'.call.err
         /\ err' = Nil]_vars

\* The source returned no data and an error, which the Read returned.
C16_Witness ==
    /\ WrapperRead
    /\ last.call.calls = 1
    /\ last.call.n = 0
    /\ last.call.err = ErrSrc
    /\ last.n = 0
    /\ last.err = ErrSrc
    /\ err = Nil

(***************************************************************************)
(* C17: Err returns what the err field holds (nil if nothing is stored),   *)
(* leaves the field nil, does not call the source, and changes nothing     *)
(* else: the wrapped reader and the source's own state are as before.      *)
(***************************************************************************)
C17_ErrFrame ==
    [][StepOf({"Reader.Err"}) =>
         /\ last'.err = err
         /\ err' = Nil
         /\ last'.call.calls = 0
         /\ src' = src
         /\ r' = r
         /\ made' = made
         /\ pc' = pc]_vars

\* Err was called with nothing stored, after a Read that returned data, and
\* returned nil.
C17_Witness ==
    /\ last.op = "Reader.Err"
    /\ last.err = Nil
    /\ errRun = 1
    /\ got # <<>>
    /\ handed = <<>>

(***************************************************************************)
(* C18: when an error is stored and the caller has then used the source    *)
(* directly without calling Err, the next Read of the wrapper returns      *)
(* (0, the stored error) without reading the source, whatever the source   *)
(* now has to give; after an Err call, and until the wrapper's next Read,  *)
(* no error is stored, so that Read reads the source.                      *)
(***************************************************************************)
C18_StaleError ==
    [][/\ (err # Nil /\ last.on = "src" /\ WrapperReadStep =>
              /\ last'.n = 0
              /\ last'.err = err
              /\ last'.call.calls = 0
              /\ src' = src)
       /\ (errRun' >= 1 => err' = Nil)
       /\ (errRun >= 1 /\ WrapperReadStep => last'.call.calls = 1)]_vars

\* A Read stored an error with its data, the source was then read directly,
\* and the next Read of the wrapper returned the stored error although the
\* source had data left.
C18_Witness ==
    /\ WrapperRead
    /\ last.call.calls = 0
    /\ last.err # Nil
    /\ direct
    /\ nops = 4
    /\ got # <<>>
    /\ Len(produced) > Len(got)
    /\ got = SubSeq(produced, 1, Len(got))
    /\ src.data # <<>>

(***************************************************************************)
(* C19: the err field is non-nil only if the most recent call of the       *)
(* wrapper was a Read that returned n > 0 and a nil error: after           *)
(* NewReader, after Err, and after a Read that returned n = 0 or an error, *)
(* it is nil, and calls that are not the wrapper's leave it as it is.      *)
(***************************************************************************)
C19_SlotOccupied ==
    [][/\ (StepOf({"NewReader"}) \/ WrapperStep =>
              (err' # Nil => WrapperReadStep /\ last'.n > 0 /\ last'.err = Nil))
       /\ (nops' # nops /\ last'.on = "src" => err' = err)]_vars

\* An error is stored and the source has since been read directly.
C19_Witness ==
    /\ err # Nil
    /\ last.on = "src"
    /\ got # <<>>

(***************************************************************************)
(* The examples: the length of the content a program started with.         *)
(***************************************************************************)
BasicLen == Len(produced) + Len(src.data)

StringsLen == Len(src.past) + Len(src.data)

(***************************************************************************)
(* C13: the read loops over a wrapper of a basic reader with content of    *)
(* length L and a buffer of size k >= 1: while bytes are left, each Read   *)
(* returns the next min(k, bytes left) bytes of the content with a nil     *)
(* error; the first Read after all L bytes were returned returns           *)
(* (0, io.EOF). For L = 13 and k = 10: 10 bytes, 3 bytes, then (0, EOF).   *)
(***************************************************************************)
C13_Chunks ==
    [][(buf.cap >= 1 /\ pc \in {"ExampleReader.loop", "ExampleRead.loop"}) =>
         (IF Len(got) < BasicLen
          THEN /\ last'.n = Min(buf.cap, BasicLen - Len(got))
               /\ last'.err = Nil
               /\ got' = Content(Len(got) + last'.n)
               /\ pc' = pc
          ELSE /\ last'.n = 0
               /\ last'.err = EOF
               /\ got' = got
               /\ pc' \in {"ExampleReader.done", "ExampleRead.done"})]_vars

\* "Hello, World!" read with a buffer of 10: NewReader and three Reads, the
\* last one returning (0, io.EOF) after all 13 bytes.
C13_Witness ==
    /\ pc = "ExampleReader.done"
    /\ buf.cap = BufSize
    /\ got = Content(HelloLen)
    /\ nops = 4
    /\ last.n = 0
    /\ last.err = EOF

(***************************************************************************)
(* C14: ExampleReader_Err over a strings.Reader. After a Read through the  *)
(* wrapper that returned no error, Err returns nil; after moving the       *)
(* reader back by 3 with Seek, the next Read through the wrapper returns,  *)
(* with no error, the bytes that start 3 before the place where the first  *)
(* Read ended. For "Hello, World!" and a buffer of 10: bytes 1..10         *)
(* ("Hello, Wor"), then bytes 8..13 ("World!").                            *)
(***************************************************************************)
C14_DrainThenSeek ==
    /\ (pc = "ExampleReader_Err.seek" =>
          last.op = "Reader.Err" /\ last.err = Nil /\ err = Nil)
    /\ (pc = "ExampleReader_Err.done" =>
          LET first == Min(buf.cap, StringsLen)
          IN  /\ last.err = Nil
              /\ delivered = <<>>
              /\ Bytes(last.out) =
                    SubSeq(Content(StringsLen), first - 2,
                           Min(first - 3 + buf.cap, StringsLen))
              /\ got = Content(first) \o Bytes(last.out))
    /\ (pc = "ExampleReader_Err.done" /\ StringsLen = HelloLen
          /\ buf.cap = BufSize =>
          /\ Bytes(last.out) = <<8, 9, 10, 11, 12, 13>>
          /\ got = Content(10) \o <<8, 9, 10, 11, 12, 13>>)

\* The example has run to its end on "Hello, World!" with a buffer of 10.
C14_Witness ==
    /\ pc = "ExampleReader_Err.done"
    /\ StringsLen = HelloLen
    /\ buf.cap = BufSize
    /\ Len(Bytes(last.out)) = 6
    /\ nops = 5

(***************************************************************************)
(* C20: the loop of ExampleRead, which calls the Read helper on a wrapper  *)
(* of a basic reader and stops at the first error: with a buffer of        *)
(* capacity >= 1 it ends, and when it ends the helper has returned exactly *)
(* the content, the one error seen came with no data; with a buffer of     *)
(* capacity 0 and content that is not empty every call returns no bytes    *)
(* and a nil error, and the loop does not end.                             *)
(***************************************************************************)
C20_ReadLoop ==
    /\ [](pc = "ExampleRead.loop" /\ buf.cap >= 1 => <>(pc = "ExampleRead.done"))
    /\ [](pc = "ExampleRead.done" =>
            /\ got = Content(BasicLen)
            /\ src.data = <<>>
            /\ last.n = 0
            /\ delivered = <<last.err>>
            /\ last.err # Nil)
    /\ [](buf.cap = 0 /\ BasicLen > 0 =>
            /\ pc # "ExampleRead.done"
            /\ (pc = "ExampleRead.loop" =>
                  /\ delivered = <<>>
                  /\ got = <<>>
                  /\ (last.op = "Read" =>
                        last.out.len = 0 /\ last.n = 0 /\ last.err = Nil)))

\* The loop has ended on "Hello, World!" with a buffer of 10.
C20_Witness ==
    /\ pc = "ExampleRead.done"
    /\ buf.cap = BufSize
    /\ got = Content(HelloLen)
    /\ delivered = <<EOF>>

====
